---------------------------- MODULE Spec2Model ----------------------------
(***************************************************************************)
(* terminalReminder: the CLI front end (remindMe.py), the JSON reminder    *)
(* store, the lock-file singleton guard and the notification daemon        *)
(* (reminderNotifier.py), as interleaved processes over one store file.    *)
(*                                                                         *)
(* Time is in whole seconds.  A text is a sequence of whitespace-separated *)
(* tokens; a message is the sequence of tokens left after extraction.      *)
(***************************************************************************)
EXTENDS Integers, Sequences, FiniteSets, TLC

\* ---------------------------------------------------------------- bounds
MaxCli == 2      \* CLI invocations in one behaviour (each spawns <= 1 daemon)
MaxClock == 1    \* the wall clock runs over 0..MaxClock
MaxStore == 2    \* records in the store when a lone daemon starts ticking
MaxWords == 2    \* message words in a text given to the parser
MaxQuantity == 2 \* the N of "in N <unit>" runs over 0..MaxQuantity

\* ------------------------------------------------------ program constants
SecondsPerMinute == 60
SecondsPerHour == 3600
SecondsPerDay == 86400

\* ------------------------------------------------------------------ text
\* One token of the command line.  k: "w" a plain word s; "at" / "in" the
\* keywords; "num" a number n with optional ":mm" (mm = -1 when absent) and
\* optional am/pm suffix ap; "unit" a unit word s after its optional plural s.
Tok(k, s, n, mm, ap) == [k |-> k, s |-> s, n |-> n, mm |-> mm, ap |-> ap]
W(s) == Tok("w", s, 0, -1, "")
At == Tok("at", "at", 0, -1, "")
In == Tok("in", "in", 0, -1, "")
Num(n) == Tok("num", "", n, -1, "")
Clock(n, mm, ap) == Tok("num", "", n, mm, ap)
Unit(s) == Tok("unit", s, 0, -1, "")

\* The texts the CLI is invoked with.
Inputs ==
    { <<W("tea"), In, Num(1), Unit("second")>>,     \* tea in 1 second
      <<W("tea"), In, Num(0), Unit("second")>>,     \* tea in 0 seconds
      <<At, Clock(5, -1, "pm")>>,                   \* at 5pm
      <<W("hello")>> }                              \* no time expression

\* subsequence t[a..b] (empty when a > b)
Slice(t, a, b) == [j \in 1..(b - a + 1) |-> t[a + j - 1]]

\* str.replace(m, ""): every non-overlapping occurrence of m, left to right
RECURSIVE RemoveAll(_, _)
RemoveAll(t, m) ==
    IF Len(m) = 0 \/ Len(t) < Len(m) THEN t
    ELSE IF Slice(t, 1, Len(m)) = m
         THEN RemoveAll(Slice(t, Len(m) + 1, Len(t)), m)
         ELSE <<t[1]>> \o RemoveAll(Tail(t), m)

\* re.search: the leftmost position where the pattern matches, 0 for no match
AtMatches(t, i) ==
    /\ i + 1 <= Len(t)
    /\ t[i].k = "at"
    /\ t[i + 1].k = "num"
    /\ t[i + 1].n <= 99

CliUnits == {"second", "minute", "hour", "sec", "min", "s", "m", "h"}

InMatches(t, i) ==
    /\ i + 2 <= Len(t)
    /\ t[i].k = "in"
    /\ t[i + 1].k = "num" /\ t[i + 1].mm = -1 /\ t[i + 1].ap = ""
    /\ t[i + 2].k = "unit" /\ t[i + 2].s \in CliUnits

FirstAt(t) ==
    IF \E i \in 1..Len(t) : AtMatches(t, i)
    THEN CHOOSE i \in 1..Len(t) :
            AtMatches(t, i) /\ \A j \in 1..(i - 1) : ~AtMatches(t, j)
    ELSE 0

FirstIn(t) ==
    IF \E i \in 1..Len(t) : InMatches(t, i)
    THEN CHOOSE i \in 1..Len(t) :
            InMatches(t, i) /\ \A j \in 1..(i - 1) : ~InMatches(t, j)
    ELSE 0

NoTimeInfo ==
    [type |-> "none", clock |-> Num(0), amount |-> 0, unit |-> "", message |-> <<>>]

\* remindMe.parse_reminder: "at" wins over "in"; the message is the text with
\* the matched expression cut out and the ends stripped, and nothing else.
ParseReminder(t) ==
    LET a == FirstAt(t)
        b == FirstIn(t)
    IN  IF a > 0
        THEN [type |-> "at", clock |-> t[a + 1], amount |-> 0, unit |-> "",
              message |-> RemoveAll(t, Slice(t, a, a + 1))]
        ELSE IF b > 0
        THEN [type |-> "in", clock |-> Num(0), amount |-> t[b + 1].n,
              unit |-> t[b + 2].s,
              message |-> RemoveAll(t, Slice(t, b, b + 2))]
        ELSE NoTimeInfo

\* strptime over the formats %I:%M%p, %I:%M %p, %H:%M, %I%p, %I %p:
\* the second of the day, or -1 when no format fits
ParseClock(c) ==
    LET h12 == (c.n % 12) + (IF c.ap = "pm" THEN 12 ELSE 0)
    IN  IF c.mm >= 0 /\ c.ap # ""
        THEN IF c.n >= 1 /\ c.n <= 12 /\ c.mm <= 59
             THEN h12 * SecondsPerHour + c.mm * SecondsPerMinute ELSE -1
        ELSE IF c.mm >= 0
        THEN IF c.n <= 23 /\ c.mm <= 59
             THEN c.n * SecondsPerHour + c.mm * SecondsPerMinute ELSE -1
        ELSE IF c.ap # ""
        THEN IF c.n >= 1 /\ c.n <= 12 THEN h12 * SecondsPerHour ELSE -1
        ELSE -1

\* remindMe.calculate_seconds_until at wall-clock time now; -1 stands for None
CalculateSecondsUntil(info, now) ==
    IF info.type = "at"
    THEN LET sod == ParseClock(info.clock)
             today == now - (now % SecondsPerDay)
             target == today + sod
         IN  IF sod < 0 THEN -1
             ELSE IF target < now THEN target + SecondsPerDay - now
             ELSE target - now
    ELSE IF info.unit \in {"second", "sec", "s"} THEN info.amount
    ELSE IF info.unit \in {"minute", "min", "m"} THEN info.amount * SecondsPerMinute
    ELSE IF info.unit \in {"hour", "h"} THEN info.amount * SecondsPerHour
    ELSE -1


\* ---------------------------------------------------------- ReminderParser
\* Further tokens of reminderParser.py's patterns.  A calendar date
\* "<day> <month> [<year>]" is one token: s the month (three letters, lower
\* case, as self.text is), n the day, mm the year (-1 when absent).
Date(day, month, year) == Tok("date", month, day, year, "")
On == W("on")
Later == W("later")
Today == W("today")
Tomorrow == W("tomorrow")
NextWord == W("next")

\* the year whose 1 January 00:00:00 is second 0 of the clock
EpochYear == 2025

\* TIME_PATTERNS['interval']: the units the pattern accepts
ParserUnits ==
    {"second", "minute", "hour", "day", "week", "month", "year",
     "sec", "min", "hr", "s", "m", "h", "d", "w", "y"}

\* TIME_UNITS.get(unit.lower(), 60)
TimeUnits(u) ==
    IF u \in {"second", "sec", "s"} THEN 1
    ELSE IF u \in {"minute", "min", "m"} THEN 60
    ELSE IF u \in {"hour", "hr", "h"} THEN 3600
    ELSE IF u \in {"day", "d"} THEN 86400
    ELSE IF u \in {"week", "w"} THEN 604800
    ELSE IF u = "month" THEN 2592000
    ELSE IF u = "year" THEN 31536000
    ELSE 60

\* where each pattern of TIME_PATTERNS matches
SpecificTimeAt(t, i) == t[i].k = "num" /\ t[i].ap # "" /\ t[i].n <= 99
TimeWithAtAt(t, i) == i + 1 <= Len(t) /\ t[i].k = "at" /\ SpecificTimeAt(t, i + 1)
IntervalAt(t, i) ==
    /\ i + 2 <= Len(t)
    /\ t[i].k = "in"
    /\ t[i + 1].k = "num" /\ t[i + 1].mm = -1 /\ t[i + 1].ap = ""
    /\ t[i + 2].k = "unit" /\ t[i + 2].s \in ParserUnits
DateAt(t, i) == t[i].k = "date"
TodayAt(t, i) == t[i] = Today
TomorrowAt(t, i) == t[i] = Tomorrow
NextWeekAt(t, i) == i + 1 <= Len(t) /\ t[i] = NextWord /\ t[i + 1] = Unit("week")
NextMonthAt(t, i) == i + 1 <= Len(t) /\ t[i] = NextWord /\ t[i + 1] = Unit("month")

\* the loop over re.finditer overwrites the entry: the last match stays
LastMatch(S) ==
    IF S = {} THEN 0 ELSE CHOOSE i \in S : \A j \in S : j <= i

\* _extract_time_components: per pattern the position of its match, 0 when
\* the component is absent
ExtractTimeComponents(t) ==
    [specific_time |-> LastMatch({i \in 1..Len(t) : SpecificTimeAt(t, i)}),
     time_with_at |-> LastMatch({i \in 1..Len(t) : TimeWithAtAt(t, i)}),
     interval |-> LastMatch({i \in 1..Len(t) : IntervalAt(t, i)}),
     date |-> LastMatch({i \in 1..Len(t) : DateAt(t, i)}),
     today |-> LastMatch({i \in 1..Len(t) : TodayAt(t, i)}),
     tomorrow |-> LastMatch({i \in 1..Len(t) : TomorrowAt(t, i)}),
     next_week |-> LastMatch({i \in 1..Len(t) : NextWeekAt(t, i)}),
     next_month |-> LastMatch({i \in 1..Len(t) : NextMonthAt(t, i)})]

NoComponents == ExtractTimeComponents(<<>>)

\* the matched text (full_match) of a component
FullMatch(t, tc, name) ==
    IF tc[name] = 0 THEN <<>>
    ELSE IF name = "interval" THEN Slice(t, tc[name], tc[name] + 2)
    ELSE IF name \in {"time_with_at", "next_week", "next_month"}
         THEN Slice(t, tc[name], tc[name] + 1)
    ELSE Slice(t, tc[name], tc[name])

\* KEYWORDS, in the order of the dictionary
KeywordTokens == <<Later, At, On, W("by"), W("before")>>

\* _identify_keywords: the keywords that occur somewhere in the text
IdentifyKeywords(t) ==
    {k \in 1..Len(KeywordTokens) : \E i \in 1..Len(t) : t[i] = KeywordTokens[k]}


\* dateparser.parse of a clock time "<h>[:<mm>]am|pm": the second of the
\* day, -1 for None
DateparserTime(c) ==
    IF c.n >= 1 /\ c.n <= 12 /\ c.mm <= 59
    THEN ((c.n % 12) + (IF c.ap = "pm" THEN 12 ELSE 0)) * SecondsPerHour
         + (IF c.mm >= 0 THEN c.mm * SecondsPerMinute ELSE 0)
    ELSE -1

MonthNames ==
    <<"jan", "feb", "mar", "apr", "may", "jun",
      "jul", "aug", "sep", "oct", "nov", "dec">>
DaysBeforeMonth == <<0, 31, 59, 90, 120, 151, 181, 212, 243, 273, 304, 334>>
DaysInMonth == <<31, 28, 31, 30, 31, 30, 31, 31, 30, 31, 30, 31>>
MonthIndex(m) ==
    IF \E k \in 1..12 : MonthNames[k] = m
    THEN CHOOSE k \in 1..12 : MonthNames[k] = m ELSE 0

\* day of the year of a date token (0-based, years of 365 days), -1 when
\* there is no such day
DayOfYear(d) ==
    LET k == MonthIndex(d.s)
    IN  IF k = 0 \/ d.n < 1 THEN -1
        ELSE IF d.n > DaysInMonth[k] THEN -1
        ELSE DaysBeforeMonth[k] + d.n - 1

\* dateparser.parse of "<day> <month> [<year>]" with PREFER_DATES_FROM
\* 'future', DATE_ORDER 'DMY', RELATIVE_BASE now: the day number since the
\* epoch, -1 for None.  Without a year it is the coming such day.
DateparserDate(d, now) ==
    LET doy == DayOfYear(d)
        day == now \div SecondsPerDay
        year == day \div 365
    IN  IF doy < 0 THEN -1
        ELSE IF d.mm >= 0 THEN (d.mm - EpochYear) * 365 + doy
        ELSE IF doy >= day % 365 THEN year * 365 + doy
        ELSE (year + 1) * 365 + doy

\* dateparser.parse of "<date> <time>"
DateparserDateTime(d, c, now) ==
    IF DateparserDate(d, now) < 0 \/ DateparserTime(c) < 0 THEN -1
    ELSE DateparserDate(d, now) * SecondsPerDay + DateparserTime(c)

\* dateparser.parse of the whole text when no component gave a time: the
\* texts considered are not dates, the result is None
DateparserText(t, now) == -1

\* mutant: a time equal to now is not rolled forward
RollForwardStrict(at_today, now) ==
    IF at_today < now THEN at_today + SecondsPerDay ELSE at_today

\* lines 200-202: a time that is not after now is moved to the next day
RollForward(at_today, now) ==
    IF at_today <= now THEN at_today + SecondsPerDay ELSE at_today

\* mutant: the roll-forward is applied before the day adjustment
AdjustDayTwice(at_today, day_adjustment, now) ==
    RollForward(at_today, now) + day_adjustment * SecondsPerDay

\* lines 197-202: the day adjustment, or else the roll-forward
AdjustDay(at_today, day_adjustment, now) ==
    IF day_adjustment > 0 THEN at_today + day_adjustment * SecondsPerDay
    ELSE RollForward(at_today, now)

\* mutant: a date without a time is taken at 00:00
DateAtMidnight(parsed_date) == parsed_date * SecondsPerDay

\* lines 220-223: datetime.combine(parsed_date.date(), datetime.time(9, 0))
DateAtNine(parsed_date) == parsed_date * SecondsPerDay + 9 * SecondsPerHour

\* _determine_trigger_time with datetime.now() = now; -1 stands for None
DetermineTriggerTime(t, tc, now) ==
    LET hasTime == tc.time_with_at > 0 \/ tc.specific_time > 0
        time_value == IF tc.time_with_at > 0 THEN t[tc.time_with_at + 1]
                      ELSE IF tc.specific_time > 0 THEN t[tc.specific_time]
                      ELSE Num(0)
        hasDate == tc.date > 0
        date_value == IF hasDate THEN t[tc.date] ELSE Date(0, "", -1)
        day_adjustment == IF tc.tomorrow > 0 THEN 1
                          ELSE IF tc.next_week > 0 THEN 7
                          ELSE IF tc.next_month > 0 THEN 30
                          ELSE 0
        today == now - (now % SecondsPerDay)
        parsed_time == DateparserTime(time_value)
        at_today == today + parsed_time
        parsed_date == DateparserDate(date_value, now)
    IN  IF tc.interval > 0
        THEN now + t[tc.interval + 1].n * TimeUnits(t[tc.interval + 2].s)
        ELSE IF hasTime /\ hasDate
        THEN DateparserDateTime(date_value, time_value, now)
        ELSE IF hasTime /\ parsed_time >= 0
        THEN AdjustDay(at_today, day_adjustment, now)
        ELSE IF hasDate /\ parsed_date >= 0
        THEN DateAtNine(parsed_date)
        ELSE DateparserText(t, now)

\* re.search of the literal m in t
Occurs(t, m) == \E i \in 1..(Len(t) - Len(m) + 1) : Slice(t, i, i + Len(m) - 1) = m

\* re.sub(r'\s*' + re.escape(m) + r'\s*', ' ', message): every occurrence
Sub(message, m) == RemoveAll(message, m)

ComponentOrder ==
    <<"specific_time", "time_with_at", "interval", "date",
      "today", "tomorrow", "next_week", "next_month">>

\* lines 268-270: the components' full matches removed in dictionary order
RECURSIVE RemoveComponents(_, _, _, _)
RemoveComponents(message, t, tc, k) ==
    IF k > Len(ComponentOrder) THEN message
    ELSE RemoveComponents(Sub(message, FullMatch(t, tc, ComponentOrder[k])),
                          t, tc, k + 1)

\* mutant: no keyword is removed from the beginning
KeepLeadingKeywords(message, kw, k) == message

\* lines 273-276: each identified keyword removed when the message begins
\* with it, in dictionary order
RECURSIVE RemoveLeadingKeywords(_, _, _)
RemoveLeadingKeywords(message, kw, k) ==
    IF k > Len(KeywordTokens) THEN message
    ELSE RemoveLeadingKeywords(
            IF k \in kw /\ Len(message) > 0 /\ message[1] = KeywordTokens[k]
            THEN Tail(message) ELSE message,
            kw, k + 1)

\* (at|on|by|in|for|before)
Prepositions == {At, On, W("by"), In, W("for"), W("before")}

DefaultMessage == <<W("Reminder")>>

\* _extract_message
ExtractMessage(t, tc, kw) ==
    LET on_date == <<On>> \o FullMatch(t, tc, "date")
        at_time == <<At>> \o FullMatch(t, tc, "specific_time")
        m1 == IF tc.date > 0 /\ Occurs(t, on_date) THEN Sub(t, on_date) ELSE t
        m2 == IF tc.specific_time > 0 /\ Occurs(t, at_time)
              THEN Sub(m1, at_time) ELSE m1
        m3 == RemoveComponents(m2, t, tc, 1)
        m4 == RemoveLeadingKeywords(m3, kw, 1)
        m5 == IF Len(m4) >= 2 /\ m4[Len(m4)] \in Prepositions
              THEN Slice(m4, 1, Len(m4) - 1) ELSE m4
        m6 == IF Len(m5) >= 2 /\ m5[1] \in Prepositions THEN Tail(m5) ELSE m5
    IN  IF m6 = <<>> THEN DefaultMessage ELSE m6

\* parse: trigger_time and message for text t read at time now
Parse(t, now) ==
    LET tc == ExtractTimeComponents(t)
    IN  [trigger_time |-> DetermineTriggerTime(t, tc, now),
         message |-> ExtractMessage(t, tc, IdentifyKeywords(t))]


\* ----------------------------------------------------------------- state
\* The store's steps are the ones the design names: load, push, save, each
\* atomic.  Local computation is folded into the next step that touches
\* shared state (a file, a process, the sink).
VARIABLES
    clock,   \* wall-clock time, seconds
    store,   \* reminders.json: the list json.load returns ([] when missing)
    lock,    \* notifier.lock: absent, empty (opened "w", nothing written), or a PID
    cli,     \* the CLI invocations, by invocation number
    dmn,     \* the daemon processes, by PID
    sink,    \* history: every call of notify(), in order
    failed,  \* history: the ids whose platform notification call failed
    overlap, \* history: a liveness check ran while another invocation was
             \* between its own failed check and the end of its lock write
    parser   \* a ReminderParser object and the step parse() has reached

vars == <<clock, store, lock, cli, dmn, sink, failed, overlap, parser>>

CliIds == 1..MaxCli
Pids == 1..MaxCli      \* the daemon spawned by invocation c gets PID c

\* a stored reminder; id is history (the invocation that built it)
NoRec ==
    [id |-> 0, timestamp |-> 0, trigger_time |-> 0, message |-> <<>>,
     full_command |-> <<>>]

\* no ReminderParser object.  pc: idle, extract, keywords, trigger, message,
\* done, compared.  cli is the reminder_data the CLI builds for the same text.
\* again is history: the text is the message that an earlier parse returned.
ParserIdle ==
    [pc |-> "idle", text |-> <<>>, now |-> 0, time_components |-> NoComponents,
     keywords |-> {}, trigger_time |-> -1, message |-> <<>>, cli |-> NoRec,
     again |-> FALSE]

LockAbsent == [st |-> "absent", pid |-> 0]
LockEmpty == [st |-> "empty", pid |-> 0]
\* mutant: the PID written is not the spawned process's
LockPidOfCaller(p) == [st |-> "pid", pid |-> 0]

LockPid(p) == [st |-> "pid", pid |-> p]

\* pc: idle, start, lockopen, lockwrite, process, save, done.  saved is
\* history: this invocation's save_reminders has run.
CliInit ==
    [pc |-> "idle", unlinked |-> FALSE, rec |-> NoRec, reminders |-> <<>>,
     saved |-> FALSE]

\* pc: none (never spawned), load, scan (inside the for loop, before the
\* save), dead.  fired is history: what this tick has passed to notify().
DmnInit ==
    [pc |-> "none", reminders |-> <<>>, now |-> 0, i |-> 1, rm |-> {},
     fired |-> <<>>, cause |-> "none"]

Init ==
    /\ clock = 0
    /\ store = <<>>
    /\ lock = LockAbsent
    /\ cli = [c \in CliIds |-> CliInit]
    /\ dmn = [p \in Pids |-> DmnInit]
    /\ sink = <<>>
    /\ failed = {}
    /\ overlap = FALSE
    /\ parser = ParserIdle

\* a daemon process exists and has not exited
Alive(p) == dmn[p].pc \notin {"none", "dead"}

Running == {p \in Pids : Alive(p)}

\* ------------------------------------------------------- singleton guard
\* mutant: the probe never finds the process
ProbePidNeverAlive(p) == FALSE

\* os.kill(pid, 0) / tasklist: is a process with this PID alive
ProbePid(p) == Alive(p)

\* pgrep -f reminderNotifier.py / wmic: does any process run the daemon script
ScanForNotifier == Running # {}

\* remindMe.is_notifier_running: with a lock file the answer is the probe of
\* its PID (False when the file cannot be read as a PID); the process scan
\* runs only when there is no lock file.
IsNotifierRunning ==
    IF lock.st = "pid" THEN ProbePid(lock.pid)
    ELSE IF lock.st = "empty" THEN FALSE
    ELSE ScanForNotifier

InGuard(c) == cli[c].pc \in {"start", "lockopen", "lockwrite"}

\* --------------------------------------------------------------- the CLI
\* remindMe.main with --log or --history: view_logs and return
CliViewLogs(c) ==
    /\ cli[c].pc = "idle"
    /\ \A b \in CliIds : b < c => cli[b].pc # "idle"
    /\ cli' = [cli EXCEPT ![c].pc = "done"]
    /\ UNCHANGED <<clock, store, lock, dmn, sink, failed, overlap, parser>>

\* remindMe.main otherwise: is_notifier_running() first.  An unreadable lock
\* file is removed (os.remove may itself fail, which is ignored); a removed
\* file that another invocation still holds open is unlinked under it.
CliCheck(c) ==
    /\ cli[c].pc = "idle"
    /\ \A b \in CliIds : b < c => cli[b].pc # "idle"
    /\ overlap' = (overlap \/ \E b \in CliIds \ {c} : InGuard(b))
    /\ \/ /\ lock.st = "empty"
          /\ \E removed \in BOOLEAN :
               /\ lock' = IF removed THEN LockAbsent ELSE lock
               /\ cli' = [b \in CliIds |->
                            IF b = c
                            THEN [cli[b] EXCEPT !.pc = "start"]
                            ELSE IF removed /\ cli[b].pc = "lockwrite"
                            THEN [cli[b] EXCEPT !.unlinked = TRUE]
                            ELSE cli[b]]
       \/ /\ lock.st # "empty"
          /\ lock' = lock
          /\ cli' = [cli EXCEPT ![c].pc = IF IsNotifierRunning THEN "process"
                                          ELSE "start"]
    /\ UNCHANGED <<clock, store, dmn, sink, failed, parser>>

\* start_notifier_script(): the script is missing or Popen raises (returns
\* False, the lock is not touched), or the daemon is spawned
CliStart(c) ==
    /\ cli[c].pc = "start"
    /\ \/ /\ cli' = [cli EXCEPT ![c].pc = "process"]
          /\ dmn' = dmn
       \/ /\ dmn[c].pc = "none"
          /\ dmn' = [dmn EXCEPT ![c].pc = "load"]
          /\ cli' = [cli EXCEPT ![c].pc = "lockopen"]
    /\ UNCHANGED <<clock, store, lock, sink, failed, overlap, parser>>

\* open(lock_file, 'w') truncates or creates the file
CliLockOpen(c) ==
    /\ cli[c].pc = "lockopen"
    /\ lock' = LockEmpty
    /\ cli' = [cli EXCEPT ![c].pc = "lockwrite"]
    /\ UNCHANGED <<clock, store, dmn, sink, failed, overlap, parser>>

\* f.write(str(process.pid)); a file unlinked meanwhile stays absent
CliLockWrite(c) ==
    /\ cli[c].pc = "lockwrite"
    /\ lock' = IF cli[c].unlinked THEN lock ELSE LockPid(c)
    /\ cli' = [cli EXCEPT ![c].pc = "process", ![c].unlinked = FALSE]
    /\ UNCHANGED <<clock, store, dmn, sink, failed, overlap, parser>>

\* the record process_reminder builds for text t at time now
ReminderData(c, t, now) ==
    LET info == ParseReminder(t)
        secs == CalculateSecondsUntil(info, now)
    IN  [id |-> c, timestamp |-> now, trigger_time |-> now + secs,
         message |-> info.message, full_command |-> t]

\* does process_reminder get as far as the store for text t at time now
Accepts(t, now) ==
    /\ ParseReminder(t).type # "none"
    /\ CalculateSecondsUntil(ParseReminder(t), now) >= 0

\* main's "if unknown": no arguments, print the help
CliNoArgs(c) ==
    /\ cli[c].pc = "process"
    /\ cli' = [cli EXCEPT ![c].pc = "done"]
    /\ UNCHANGED <<clock, store, lock, dmn, sink, failed, overlap, parser>>

\* process_reminder(text): give up when the text has no usable time, else
\* build the record and reminders = load_reminders()
CliProcess(c) ==
    /\ cli[c].pc = "process"
    /\ \E t \in Inputs :
         IF Accepts(t, clock)
         THEN cli' = [cli EXCEPT ![c].pc = "save",
                                 ![c].rec = ReminderData(c, t, clock),
                                 ![c].reminders = store]
         ELSE cli' = [cli EXCEPT ![c].pc = "done"]
    /\ UNCHANGED <<clock, store, lock, dmn, sink, failed, overlap, parser>>

\* reminders.append(reminder_data); save_reminders(reminders)
CliSave(c) ==
    /\ cli[c].pc = "save"
    /\ store' = Append(cli[c].reminders, cli[c].rec)
    /\ cli' = [cli EXCEPT ![c].pc = "done", ![c].reminders = <<>>,
                          ![c].saved = TRUE]
    /\ UNCHANGED <<clock, lock, dmn, sink, failed, overlap, parser>>

\* ------------------------------------------------------------ the daemon
\* mutant: the boundary trigger_time = now is left out
IsDueStrict(r, now) == r.trigger_time < now

\* mutant: every record counts as due
IsDueAlways(r, now) == TRUE

\* trigger_time <= now
IsDue(r, now) == r.trigger_time <= now

\* the indices of the loaded list that the for loop has still to notify
DueFrom(d) ==
    {j \in d.i..Len(d.reminders) : IsDue(d.reminders[j], d.now)}

Min(S) == CHOOSE x \in S : \A y \in S : x <= y

\* mutant: nothing is deleted before the save
WithoutNone(list, rm, j) == list

\* mutant: the records that stay are pushed back by one second
WithoutRescheduling(list, rm, j) ==
    LET kept == SelectSeq([k \in 1..Len(list) |-> [r |-> list[k], k |-> k]],
                          LAMBDA x : x.k \notin rm)
    IN  [k \in 1..Len(kept) |->
            [kept[k].r EXCEPT !.trigger_time = kept[k].r.trigger_time + 1]]

\* the list after "del reminders[index]" for every index in rm
RECURSIVE Without(_, _, _)
Without(list, rm, j) ==
    IF j > Len(list) THEN <<>>
    ELSE (IF j \in rm THEN <<>> ELSE <<list[j]>>) \o Without(list, rm, j + 1)

\* a daemon outside a tick
Rest(d, pc, cause) ==
    [d EXCEPT !.pc = pc, !.cause = cause, !.reminders = <<>>, !.now = 0,
              !.i = 1, !.rm = {}, !.fired = <<>>]

\* reminders = load_reminders(); now = datetime.now()
DaemonLoad(p) ==
    /\ dmn[p].pc = "load"
    /\ dmn' = [dmn EXCEPT ![p].pc = "scan", ![p].reminders = store,
                          ![p].now = clock]
    /\ UNCHANGED <<clock, store, lock, cli, sink, failed, overlap, parser>>

\* what notify() is called for
Delivery(r) == [id |-> r.id, message |-> r.message, trigger_time |-> r.trigger_time]

\* the loop body for the next due record: notify(reminder['message']) and
\* reminders_to_remove.append(i); the platform call may fail, which notify
\* logs and swallows
DaemonNotify(p) ==
    /\ dmn[p].pc = "scan"
    /\ DueFrom(dmn[p]) # {}
    /\ LET j == Min(DueFrom(dmn[p]))
       IN  \E ok \in BOOLEAN :
             /\ sink' = Append(sink, Delivery(dmn[p].reminders[j]))
             /\ failed' = IF ok THEN failed ELSE failed \cup {dmn[p].reminders[j].id}
             /\ dmn' = [dmn EXCEPT ![p].i = j + 1, ![p].rm = dmn[p].rm \cup {j},
                           ![p].fired = Append(dmn[p].fired,
                                               Delivery(dmn[p].reminders[j]))]
    /\ UNCHANGED <<clock, store, lock, cli, overlap, parser>>

\* the deletions, save_reminders(reminders) and the sleep before the next
\* iteration
DaemonSave(p) ==
    /\ dmn[p].pc = "scan"
    /\ DueFrom(dmn[p]) = {}
    /\ store' = Without(dmn[p].reminders, dmn[p].rm, 1)
    /\ dmn' = [dmn EXCEPT ![p] = Rest(dmn[p], "load", "none")]
    /\ UNCHANGED <<clock, lock, cli, sink, failed, overlap, parser>>

\* save_reminders raises (the file cannot be written): the exception leaves
\* the while loop and main returns
DaemonSaveFails(p) ==
    /\ dmn[p].pc = "scan"
    /\ DueFrom(dmn[p]) = {}
    /\ dmn' = [dmn EXCEPT ![p] = Rest(dmn[p], "dead", "error")]
    /\ UNCHANGED <<clock, store, lock, cli, sink, failed, overlap, parser>>

\* KeyboardInterrupt, at any point of the loop
Interrupt(p) ==
    /\ Alive(p)
    /\ dmn' = [dmn EXCEPT ![p] = Rest(dmn[p], "dead", "interrupt")]
    /\ UNCHANGED <<clock, store, lock, cli, sink, failed, overlap, parser>>

AdvanceClock ==
    /\ clock < MaxClock
    /\ clock' = clock + 1
    /\ UNCHANGED <<store, lock, cli, dmn, sink, failed, overlap, parser>>

Next ==
    \/ \E c \in CliIds : CliViewLogs(c)
    \/ \E c \in CliIds : CliCheck(c)
    \/ \E c \in CliIds : CliStart(c)
    \/ \E c \in CliIds : CliLockOpen(c)
    \/ \E c \in CliIds : CliLockWrite(c)
    \/ \E c \in CliIds : CliNoArgs(c)
    \/ \E c \in CliIds : CliProcess(c)
    \/ \E c \in CliIds : CliSave(c)
    \/ \E p \in Pids : DaemonLoad(p)
    \/ \E p \in Pids : DaemonNotify(p)
    \/ \E p \in Pids : DaemonSave(p)
    \/ \E p \in Pids : DaemonSaveFails(p)
    \/ \E p \in Pids : Interrupt(p)
    \/ AdvanceClock

Spec == Init /\ [][Next]_vars


\* ------------------------------------------- a lone daemon that keeps ticking
\* The daemon alone with a store left by earlier invocations: no CLI runs,
\* nothing interrupts the daemon, every save succeeds.
StoredTexts == {t \in Inputs : Accepts(t, 0)}

TickStores ==
    UNION {[1..n -> StoredTexts] : n \in 0..MaxStore}

TickInit ==
    /\ clock = 0
    /\ \E ts \in TickStores :
         store = [j \in 1..Len(ts) |-> ReminderData(j, ts[j], 0)]
    /\ lock = LockPid(1)
    /\ cli = [c \in CliIds |-> [CliInit EXCEPT !.pc = "done"]]
    /\ dmn = [p \in Pids |-> IF p = 1 THEN [DmnInit EXCEPT !.pc = "load"]
                             ELSE DmnInit]
    /\ sink = <<>>
    /\ failed = {}
    /\ overlap = FALSE
    /\ parser = ParserIdle

TickNext ==
    \/ DaemonLoad(1)
    \/ DaemonNotify(1)
    \/ DaemonSave(1)
    \/ AdvanceClock

\* the loop runs on: time.sleep(1) returns and every statement terminates
TickSpec ==
    /\ TickInit
    /\ [][TickNext]_vars
    /\ WF_vars(DaemonLoad(1) \/ DaemonNotify(1) \/ DaemonSave(1))


\* ------------------------------------------------ the parser on its own
\* parse_reminder(text) of reminderParser.py called on a text at a time now,
\* step by step as parse() orders them, and then the CLI's own resolution
\* (remindMe.parse_reminder, calculate_seconds_until) of the same text.
ClockTimes == {Clock(3, -1, "pm"), Clock(11, 45, "am"), Clock(12, -1, "am")}
ClockPhrases == UNION {{<<c>>, <<At, c>>} : c \in ClockTimes}
MessageWords == {W("call"), W("mom"), In, On, W("for")}
Messages == UNION {[1..n -> MessageWords] : n \in 0..MaxWords}
RelativeDays ==
    {<<Tomorrow>>, <<NextWord, Unit("week")>>, <<NextWord, Unit("month")>>}
Dates ==
    {Date(15, "may", -1), Date(3, "jan", -1),
     Date(15, "may", EpochYear + 1), Date(3, "jan", EpochYear)}

\* [later] <clock phrase> <message> and [later] <message> <clock phrase>
ClockTexts ==
    UNION {{l \o ph \o m, l \o m \o ph} :
             l \in {<<>>, <<Later>>}, ph \in ClockPhrases, m \in Messages}

\* "in N <unit>" with a clock time, a date or a relative day before or after
IntervalTexts ==
    UNION {{w \o <<In, Num(n), Unit(u)>> \o x, w \o x \o <<In, Num(n), Unit(u)>>} :
             w \in {<<>>, <<W("tea")>>}, n \in 0..MaxQuantity, u \in ParserUnits,
             x \in {<<>>, <<At, Clock(3, -1, "pm")>>,
                    <<On, Date(15, "may", EpochYear + 1)>>} \cup RelativeDays}

\* a clock time with today / tomorrow / next week / next month
RelativeTexts ==
    UNION {{<<W("meet")>> \o k \o ph, <<W("meet")>> \o ph \o k} :
             k \in RelativeDays \cup {<<Today>>}, ph \in ClockPhrases}

\* a calendar date, with or without "on", a clock time and a relative day
DateTexts ==
    {<<W("dentist")>> \o o \o <<d>> \o ph \o k :
        o \in {<<>>, <<On>>}, d \in Dates, ph \in ClockPhrases \cup {<<>>},
        k \in {<<>>, <<Tomorrow>>, <<NextWord, Unit("month")>>}}

ParserInputs ==
    ClockTexts \cup IntervalTexts \cup RelativeTexts \cup DateTexts
    \cup {<<W("hello")>>}

\* 11 January of the epoch year, one second before, at and after 15:00:00
ParserNows == {10 * SecondsPerDay + 15 * SecondsPerHour + d : d \in {-1, 0, 1}}

ParseInit ==
    /\ clock \in ParserNows
    /\ store = <<>>
    /\ lock = LockAbsent
    /\ cli = [c \in CliIds |-> [CliInit EXCEPT !.pc = "done"]]
    /\ dmn = [p \in Pids |-> DmnInit]
    /\ sink = <<>>
    /\ failed = {}
    /\ overlap = FALSE
    /\ \E t \in ParserInputs :
         parser = [ParserIdle EXCEPT !.pc = "extract", !.text = t]

ParserFrame == UNCHANGED <<clock, store, lock, cli, dmn, sink, failed, overlap>>

\* parse(), step 1
ParserExtract ==
    /\ parser.pc = "extract"
    /\ parser' = [parser EXCEPT !.pc = "keywords",
                     !.time_components = ExtractTimeComponents(parser.text)]
    /\ ParserFrame

\* parse(), step 2
ParserKeywords ==
    /\ parser.pc = "keywords"
    /\ parser' = [parser EXCEPT !.pc = "trigger",
                     !.keywords = IdentifyKeywords(parser.text)]
    /\ ParserFrame

\* parse(), step 3; datetime.now() is read here
ParserTrigger ==
    /\ parser.pc = "trigger"
    /\ parser' = [parser EXCEPT !.pc = "message", !.now = clock,
                     !.trigger_time =
                        DetermineTriggerTime(parser.text, parser.time_components, clock)]
    /\ ParserFrame

\* parse(), step 4, and the return
ParserMessage ==
    /\ parser.pc = "message"
    /\ parser' = [parser EXCEPT !.pc = "done",
                     !.message =
                        ExtractMessage(parser.text, parser.time_components,
                                       parser.keywords)]
    /\ ParserFrame

\* the CLI's patterns see the unit words "month" and "hr" as "m" and "h"
\* followed by more letters, which whole tokens cannot show
CliExact(t) ==
    \A i \in 1..Len(t) : IntervalAt(t, i) => t[i + 2].s \notin {"month", "hr"}

\* process_reminder up to reminder_data, on the same text at the same time;
\* NoRec when it returns False
CliSameText ==
    /\ parser.pc = "done"
    /\ CliExact(parser.text)
    /\ parser' = [parser EXCEPT !.pc = "compared",
                     !.cli = IF Accepts(parser.text, parser.now)
                             THEN ReminderData(1, parser.text, parser.now)
                             ELSE NoRec]
    /\ ParserFrame

ParseNext ==
    \/ ParserExtract
    \/ ParserKeywords
    \/ ParserTrigger
    \/ ParserMessage
    \/ CliSameText

ParseSpec == ParseInit /\ [][ParseNext]_vars

\* ================================================================ claims
InList(r, list) == \E j \in 1..Len(list) : list[j] = r
DeliveredIds == {sink[j].id : j \in 1..Len(sink)}
TimesDelivered(q, id) == Cardinality({j \in 1..Len(q) : q[j].id = id})
Spawned == {p \in Pids : dmn[p].pc # "none"}
DueRecords(list, now) == SelectSeq(list, LAMBDA r : r.trigger_time <= now)
PendingRecords(list, now) == SelectSeq(list, LAMBDA r : r.trigger_time > now)
\* daemon p ends a tick: it leaves the for loop through a successful save
SaveStep(p) == dmn[p].pc = "scan" /\ dmn'[p].pc = "load"
\* invocation c writes the store
AppendStep(c) == cli[c].pc = "save" /\ cli'[c].pc = "done"

\* C1: with a single daemon, whatever the interleaving with CLI appends,
\* notify() is called at most once for each record.
C1_AtMostOnceOneDaemon ==
    Cardinality(Spawned) <= 1 =>
        \A id \in CliIds : TimesDelivered(sink, id) <= 1

C3_TickPostcondition ==
    [][/\ \A p \in Pids :
            (SaveStep(p) /\ store = dmn[p].reminders) =>
                LET due == DueRecords(store, dmn[p].now)
                IN  /\ dmn[p].fired = [j \in 1..Len(due) |-> Delivery(due[j])]
                    /\ \A j \in 1..Len(due) : dmn[p].fired[j].message = due[j].message
                    /\ store' = PendingRecords(store, dmn[p].now)
                    /\ sink' = sink
       /\ sink' # sink =>
            \E p \in Pids : \E r \in {store[j] : j \in 1..Len(store)} \cup
                                      {dmn[p].reminders[j] : j \in 1..Len(dmn[p].reminders)} :
                /\ sink' = Append(sink, Delivery(r))
                /\ dmn'[p].fired = Append(dmn[p].fired, Delivery(r))
      ]_vars

\* C3: a tick at now = 0 has notified a record with trigger_time = 0 and has
\* saved, and the store keeps only records that are not yet due.
C3_Witness ==
    /\ dmn[1].pc = "load" /\ clock = 0
    /\ Len(sink) >= 1 /\ Len(store) >= 1
    /\ \A j \in 1..Len(sink) : sink[j].trigger_time = 0
    /\ \A j \in 1..Len(store) : store[j].trigger_time > 0

\* C4: a daemon process ends only through an external interrupt; an error
\* inside a tick leaves it running.
C4_OnlyInterruptTerminates ==
    \A p \in Pids : dmn[p].pc = "dead" => dmn[p].cause = "interrupt"

\* C5: a record whose platform notification call failed is never notified
\* again (with a single daemon).
C5_FailedNeverRetried ==
    [][Cardinality(Spawned) <= 1 =>
          \A id \in failed : TimesDelivered(sink', id) = TimesDelivered(sink, id)]_vars

\* C6 as stated: at the tick's save a record of the store is lost exactly
\* when the tick had not loaded it, and is in the store afterwards in every
\* other case; a CLI save always leaves its record in the store.
C6_LostExactlyWhenNotLoaded ==
    [][/\ \A p \in Pids : SaveStep(p) =>
            \A j \in 1..Len(store) :
                InList(store[j], store') <=> InList(store[j], dmn[p].reminders)
       /\ \A c \in CliIds : AppendStep(c) => InList(cli[c].rec, store')
      ]_vars

\* C6 amended: at the tick's save a record of the store that the tick had
\* not loaded (it was saved after the tick's load) is lost without having
\* been notified by the tick; a record the tick had loaded is in the store
\* afterwards unless it was due at the tick's now, and then the tick has
\* notified it; a CLI save always leaves its record in the store.
C6_LostOrDeliveredOrKept ==
    [][/\ \A p \in Pids : SaveStep(p) =>
            \A j \in 1..Len(store) :
                LET r == store[j]
                    loaded == InList(r, dmn[p].reminders)
                    notified == \E k \in 1..Len(dmn[p].fired) :
                                    dmn[p].fired[k] = Delivery(r)
                IN  /\ ~loaded => ~InList(r, store') /\ ~notified
                    /\ loaded /\ r.trigger_time > dmn[p].now =>
                            InList(r, store') /\ ~notified
                    /\ loaded /\ r.trigger_time <= dmn[p].now =>
                            ~InList(r, store') /\ notified
       /\ \A c \in CliIds : AppendStep(c) => InList(cli[c].rec, store')
      ]_vars

\* C6: an invocation has saved its record and no other invocation has saved;
\* the record is not due, nobody has notified it, and it is neither in the
\* store nor in any tick's loaded list.
C6_Witness ==
    \E c \in CliIds :
        /\ cli[c].saved
        /\ cli[c].rec.trigger_time > clock
        /\ cli[c].rec.id \notin DeliveredIds
        /\ ~InList(cli[c].rec, store)
        /\ \A p \in Pids : ~InList(cli[c].rec, dmn[p].reminders)
        /\ \A b \in CliIds \ {c} : ~cli[b].saved

\* C7: with a single daemon, once the tick and the appends are complete, no
\* record that has been notified is in the store.
C7_NoDeliveredRecordInStore ==
    (/\ Cardinality(Spawned) <= 1
     /\ \A p \in Pids : dmn[p].pc \in {"none", "load"}
     /\ \A c \in CliIds : cli[c].pc # "save")
    => \A j \in 1..Len(store) : store[j].id \notin DeliveredIds

\* C8: while the daemon keeps ticking alone, a record is notified only by a
\* tick whose now is >= its trigger_time, every tick that loads a record
\* with trigger_time <= now notifies it before its save, and a record in the
\* store whose trigger_time has come is eventually notified.
C8_EventualDelivery ==
    /\ [][/\ sink' # sink =>
               \E p \in Pids : \E j \in 1..Len(dmn[p].reminders) :
                   /\ dmn[p].pc = "scan"
                   /\ sink' = Append(sink, Delivery(dmn[p].reminders[j]))
                   /\ dmn[p].reminders[j].trigger_time <= dmn[p].now
          /\ \A p \in Pids : SaveStep(p) =>
               \A j \in 1..Len(dmn[p].reminders) :
                   dmn[p].reminders[j].trigger_time <= dmn[p].now =>
                       dmn[p].reminders[j].id \in DeliveredIds
         ]_vars
    /\ \A id \in 1..MaxStore :
          (\E j \in 1..Len(store) :
              store[j].id = id /\ store[j].trigger_time <= clock)
          ~> (id \in DeliveredIds)

\* C8: the store held record 1 (trigger_time 1) before record 2 (trigger_time
\* 0); a tick at now = 0 notified record 2 only, a later tick record 1.
C8_Witness ==
    /\ Len(sink) = 2
    /\ sink[1].id = 2 /\ sink[1].trigger_time = 0
    /\ sink[2].id = 1 /\ sink[2].trigger_time = 1

\* C9: every record in the store has trigger_time strictly later than its
\* timestamp.
C9_TriggerAfterTimestamp ==
    \A j \in 1..Len(store) : store[j].trigger_time > store[j].timestamp

\* C10: every record in the store has a non-empty message.
C10_MessageNonEmpty ==
    \A j \in 1..Len(store) : store[j].message # <<>>

\* ------------------------------------------------- claims on the parser
\* parse() has passed _determine_trigger_time / has returned
Resolved == parser.pc \in {"message", "done", "compared"}
Returned == parser.pc \in {"done", "compared"}
HasClock(tc) == tc.specific_time > 0 \/ tc.time_with_at > 0
HasRelativeDay(tc) == tc.tomorrow > 0 \/ tc.next_week > 0 \/ tc.next_month > 0
\* the clock time written in the text, as a second of the day
ClockOf(t) ==
    LET c == t[CHOOSE i \in 1..Len(t) : t[i].k = "num" /\ t[i].ap # ""]
        hour == IF c.n = 12 THEN 0 ELSE c.n
    IN  (IF c.ap = "pm" THEN hour + 12 ELSE hour) * 3600
        + (IF c.mm >= 0 THEN c.mm * 60 ELSE 0)
Midnight(now) == now - (now % 86400)
\* the table of unit values the design gives
UnitSeconds(u) ==
    CASE u \in {"second", "sec", "s"} -> 1
      [] u \in {"minute", "min", "m"} -> 60
      [] u \in {"hour", "hr", "h"} -> 3600
      [] u \in {"day", "d"} -> 86400
      [] u \in {"week", "w"} -> 604800
      [] u = "month" -> 2592000
      [] u \in {"year", "y"} -> 31536000
IntervalQuantity == parser.text[parser.time_components.interval + 1].n
IntervalUnit == parser.text[parser.time_components.interval + 2].s

\* C11: whenever the parser returns a trigger time for a text the CLI appends
\* a record for it, and every record the CLI appends has the trigger time and
\* the message the parser returns for the same text.
C11_CliPersistsParserResult ==
    parser.pc = "compared" =>
        /\ parser.trigger_time >= 0 => parser.cli # NoRec
        /\ parser.cli # NoRec =>
              /\ parser.cli.trigger_time = parser.trigger_time
              /\ parser.cli.message = parser.message

\* C12: whenever an interval "in N <unit>" matches, the trigger time is
\* now + N * unit_seconds, whatever else the text holds.
C12_IntervalOverrides ==
    (Resolved /\ parser.time_components.interval > 0) =>
        parser.trigger_time = parser.now + IntervalQuantity * UnitSeconds(IntervalUnit)

\* C13: for a text whose only time expression is "in N <unit>", with any
\* unit the pattern accepts, the offset from now is within one second of N
\* times the table value of the unit.
C13_UnitTable ==
    (/\ Resolved
     /\ parser.time_components.interval > 0
     /\ ~HasClock(parser.time_components)
     /\ parser.time_components.date = 0
     /\ ~HasRelativeDay(parser.time_components)) =>
        LET offset == parser.trigger_time - parser.now
            expected == IntervalQuantity * UnitSeconds(IntervalUnit)
        IN  offset - expected \in {-1, 0, 1}

\* C14: for a text with a clock time and no date, interval or relative-day
\* keyword, the trigger time is today at the clock time when that is after
\* now and one day later when it is not (equality included); it is after
\* now and at most one day after now.
C14_SameDayRollForward ==
    (/\ Resolved
     /\ HasClock(parser.time_components)
     /\ parser.time_components.interval = 0
     /\ parser.time_components.date = 0
     /\ ~HasRelativeDay(parser.time_components)) =>
        LET at_today == Midnight(parser.now) + ClockOf(parser.text)
        IN  /\ at_today > parser.now => parser.trigger_time = at_today
            /\ at_today <= parser.now => parser.trigger_time = at_today + 86400
            /\ parser.trigger_time > parser.now
            /\ parser.trigger_time <= parser.now + 86400

\* C14: a clock-only text read at exactly its clock time has been resolved
\* to the same time one day later.
C14_Witness ==
    /\ Returned
    /\ parser.text \in ClockTexts
    /\ Midnight(parser.now) + ClockOf(parser.text) = parser.now
    /\ parser.trigger_time = parser.now + 86400

\* C15: for a text with a clock time, no date and no interval, tomorrow /
\* next week / next month puts the trigger time at today's date at the clock
\* time plus exactly 1 / 7 / 30 days, whether or not the clock time has
\* passed today.
C15_RelativeDayOffset ==
    (/\ Resolved
     /\ HasClock(parser.time_components)
     /\ parser.time_components.interval = 0
     /\ parser.time_components.date = 0
     /\ HasRelativeDay(parser.time_components)) =>
        LET at_today == Midnight(parser.now) + ClockOf(parser.text)
            days == IF \E i \in 1..Len(parser.text) : parser.text[i] = Tomorrow
                    THEN 1
                    ELSE IF \E i \in 1..Len(parser.text) : parser.text[i] = Unit("week")
                    THEN 7 ELSE 30
        IN  parser.trigger_time = at_today + days * 86400

\* C15: "next week" with a clock time that has already passed today has
\* been resolved to exactly seven days after today at that time.
C15_Witness ==
    /\ Returned
    /\ parser.text \in RelativeTexts
    /\ parser.time_components.next_week > 0
    /\ Midnight(parser.now) + ClockOf(parser.text) < parser.now
    /\ parser.trigger_time = Midnight(parser.now) + ClockOf(parser.text) + 7 * 86400

\* C16: with no interval, a text with a calendar date resolves to that date
\* (the year written, or else the coming such day), at the clock time of the
\* text whatever relative-day keyword it holds, and at 09:00:00 when the
\* text has no clock time.
C16_CalendarDate ==
    (/\ Resolved
     /\ parser.time_components.interval = 0
     /\ parser.time_components.date > 0) =>
        LET d == parser.text[parser.time_components.date]
            day == parser.trigger_time \div 86400
            today == parser.now \div 86400
        IN  /\ parser.trigger_time >= 0
            /\ day % 365 = DayOfYear(d)
            /\ d.mm >= 0 => day \div 365 = d.mm - EpochYear
            /\ d.mm < 0 => day >= today /\ day < today + 365
            /\ parser.trigger_time % 86400 =
                  IF HasClock(parser.time_components)
                  THEN ClockOf(parser.text) ELSE 9 * 3600

\* C16: "dentist [on] 15 may [at] <clock> tomorrow" has been resolved to the
\* coming 15 May at that clock time, not to tomorrow.
C16_Witness ==
    /\ Returned
    /\ parser.time_components.date > 0
    /\ parser.text[parser.time_components.date] = Date(15, "may", -1)
    /\ parser.time_components.tomorrow > 0
    /\ HasClock(parser.time_components)
    /\ parser.trigger_time = 134 * 86400 + ClockOf(parser.text)

\* the message words of "[later] <clock phrase> <words>" or
\* "[later] <words> <clock phrase>"
WordsOf(t) ==
    SelectSeq(IF Len(t) > 0 /\ t[1] = Later THEN Tail(t) ELSE t,
              LAMBDA x : x.k # "num" /\ x # At)
MessageFor(m) == IF m = <<>> THEN <<W("Reminder")>> ELSE m
\* the words do not begin with a keyword or preposition and do not end with
\* a preposition
PlainEnds(m) ==
    \/ m = <<>>
    \/ /\ m[1] \notin {Later, At, On, W("by"), W("before"), In, W("for")}
       /\ m[Len(m)] \notin {At, On, W("by"), In, W("for"), W("before")}

C18_StoreFrame ==
    [][\A c \in CliIds :
          cli'[c] # cli[c] =>
             IF AppendStep(c) THEN store' = Append(store, cli[c].rec)
             ELSE store' = store]_vars

\* C19: while no daemon is running, every record of the store stays in the
\* store, unchanged and in place.
C19_StaysWhileNoDaemon ==
    [][(Running = {} /\ Running' = {}) =>
          \A j \in 1..Len(store) : j <= Len(store') /\ store'[j] = store[j]]_vars

\* C20: when is_notifier_running finds a lock file whose PID is not alive,
\* the lock file does not exist when the check returns.
C20_StaleLockDeleted ==
    [][\A c \in CliIds :
          (/\ cli[c].pc = "idle" /\ cli'[c].pc \in {"start", "process"}
           /\ lock.st = "pid" /\ ~ProbePid(lock.pid))
          => lock' = LockAbsent]_vars

\* C21: when the lock file is absent or names a dead PID,
\* is_notifier_running returns true exactly when the process scan finds a
\* daemon.
C21_FallsThroughToScan ==
    (lock.st = "absent" \/ (lock.st = "pid" /\ ~ProbePid(lock.pid))) =>
        (IsNotifierRunning <=> ScanForNotifier)

\* C25: with guard sequences that do not overlap and at most one invocation
\* having written the store, no record is notified twice, also when a daemon
\* was stopped inside a tick and another was started afterwards.
C25_NoRedeliveryAfterRestart ==
    (~overlap /\ Cardinality({c \in CliIds : cli[c].saved}) <= 1) =>
        \A id \in CliIds : TimesDelivered(sink, id) <= 1

\* C26: the liveness check and the spawn come after the save: the daemon that
\* invocation c spawns exists only once c has saved its record.
C26_SpawnAfterSave ==
    \A c \in CliIds : dmn[c].pc # "none" => cli[c].saved

\* C27: every record in the store is field for field the record that some
\* invocation appended.
C27_RecordsNeverChanged ==
    \A j \in 1..Len(store) :
        \E c \in CliIds :
            /\ cli[c].saved
            /\ store[j].timestamp = cli[c].rec.timestamp
            /\ store[j].trigger_time = cli[c].rec.trigger_time
            /\ store[j].message = cli[c].rec.message
            /\ store[j].full_command = cli[c].rec.full_command

\* C27: both invocations have appended, a tick has notified and deleted the
\* first record, and the store holds exactly the second.
C27_Witness ==
    /\ cli[1].saved /\ cli[2].saved
    /\ 1 \in DeliveredIds
    /\ store = <<cli[2].rec>>
    /\ \A p \in Pids : dmn[p].pc # "scan"

\* start_notifier_script returns True in this step: the lock write is done
StartReturns(c) == cli[c].pc = "lockwrite" /\ cli'[c].pc = "process"

\* start_notifier_script returns False in this step: no script or no spawn
StartFails(c) == cli[c].pc = "start" /\ cli'[c].pc = "process"

NothingDue(p) ==
    \A j \in 1..Len(dmn[p].reminders) :
        dmn[p].reminders[j].trigger_time > dmn[p].now

\* C30: a tick that loaded nothing due leaves the store at its save exactly
\* as the store was immediately before that save.
C30_NothingDueStoreUntouched ==
    [][\A p \in Pids : (SaveStep(p) /\ NothingDue(p)) => store' = store]_vars

\* C30 amended: a tick that loaded nothing due calls notify zero times and its
\* save writes back exactly the list it loaded; the store is as immediately
\* before the save when nothing was appended since the load, and otherwise
\* the appended record is gone.
C30_NothingDueWritesLoaded ==
    [][\A p \in Pids :
          /\ (dmn[p].pc = "scan" /\ NothingDue(p)) =>
                (dmn[p].fired = <<>> /\ dmn'[p].fired = <<>>)
          /\ (SaveStep(p) /\ NothingDue(p)) =>
                /\ store' = dmn[p].reminders
                /\ store = dmn[p].reminders => store' = store
                /\ \A c \in CliIds :
                      (InList(cli[c].rec, store)
                          /\ ~InList(cli[c].rec, dmn[p].reminders)) =>
                            ~InList(cli[c].rec, store')]_vars

\* C30: nothing was ever notified, one invocation has saved a record that is
\* not yet due, and a tick that had loaded the store before that save has
\* since written the empty list it loaded.
C30_Witness ==
    \E c \in CliIds :
        /\ cli[c].saved /\ cli[c].rec.trigger_time > clock
        /\ sink = <<>> /\ store = <<>>
        /\ \A b \in CliIds \ {c} : cli[b].pc = "idle"
        /\ \A q \in Pids : dmn[q].pc \in {"none", "load"}

\* ------------------------------------------- invocations one after another
\* no other invocation is under way when invocation c begins
Sequential(c) == \A b \in CliIds \ {c} : cli[b].pc \in {"idle", "done"}

\* the system when each remindMe.py is run only after the previous one has
\* returned; the daemons run alongside as before
SeqNext ==
    \/ \E c \in CliIds : Sequential(c) /\ CliViewLogs(c)
    \/ \E c \in CliIds : Sequential(c) /\ CliCheck(c)
    \/ \E c \in CliIds : CliStart(c)
    \/ \E c \in CliIds : CliLockOpen(c)
    \/ \E c \in CliIds : CliLockWrite(c)
    \/ \E c \in CliIds : CliNoArgs(c)
    \/ \E c \in CliIds : CliProcess(c)
    \/ \E c \in CliIds : CliSave(c)
    \/ \E p \in Pids : DaemonLoad(p)
    \/ \E p \in Pids : DaemonNotify(p)
    \/ \E p \in Pids : DaemonSave(p)
    \/ \E p \in Pids : DaemonSaveFails(p)
    \/ \E p \in Pids : Interrupt(p)
    \/ AdvanceClock

SeqSpec == Init /\ [][SeqNext]_vars

\* C29: with invocations run one after another from no daemon and no lock,
\* any two running daemon processes are the same process.
C29_SequentialSingleton ==
    \A p, q \in Pids : (Alive(p) /\ Alive(q)) => p = q

\* C29: the first invocation's daemon has died, the second invocation has
\* found the lock naming the dead process and has spawned the replacement,
\* which is the only daemon running.
C29_Witness ==
    /\ dmn[1].pc = "dead"
    /\ cli[1].pc = "done" /\ cli[2].pc \notin {"idle", "start"}
    /\ Running = {2}

\* ------------------------------------------ the parser on its own message
\* two different clock times around the message words
TwoClockTexts ==
    {<<a>> \o m \o <<b>> : a \in ClockTimes, b \in ClockTimes, m \in Messages}
        \ {<<a>> \o m \o <<a>> : a \in ClockTimes, m \in Messages}

AgainInit ==
    /\ clock \in ParserNows
    /\ store = <<>>
    /\ lock = LockAbsent
    /\ cli = [c \in CliIds |-> [CliInit EXCEPT !.pc = "done"]]
    /\ dmn = [p \in Pids |-> DmnInit]
    /\ sink = <<>>
    /\ failed = {}
    /\ overlap = FALSE
    /\ \E t \in ParserInputs \cup TwoClockTexts :
         parser = [ParserIdle EXCEPT !.pc = "extract", !.text = t]

\* parse_reminder(result['message']) after a parse_reminder that did not
\* return None
ParserAgain ==
    /\ parser.pc = "done"
    /\ ~parser.again
    /\ parser.trigger_time >= 0
    /\ parser' = [ParserIdle EXCEPT !.pc = "extract", !.text = parser.message,
                                    !.again = TRUE]
    /\ ParserFrame

AgainNext ==
    \/ ParserExtract
    \/ ParserKeywords
    \/ ParserTrigger
    \/ ParserMessage
    \/ CliSameText
    \/ ParserAgain

AgainSpec == AgainInit /\ [][AgainNext]_vars

\* C24: the parser run on a message it extracted either finds no time in it
\* or returns it unchanged.
C24_ExtractionIdempotent ==
    (Returned /\ parser.again) =>
        (parser.trigger_time < 0 \/ parser.message = parser.text)

\* ------------------------------------------------- the store as a file
\* reminders.json as load_reminders and save_reminders see it.  In the
\* specifications above the variable store holds the list that json.load
\* returns; here it holds the file: no file, text that is not JSON, a file
\* that open() or read() cannot deliver, or the document json.dump wrote.
MissingFile == [kind |-> "missing", items |-> <<>>]
MalformedFile == [kind |-> "malformed", items |-> <<>>]
UnreadableFile == [kind |-> "unreadable", items |-> <<>>]

\* a str value as json.dump writes it
JsonString(v) == [quoted |-> v]

\* one dict as json.dump writes it: its keys in insertion order; id is the
\* history mark of the record and travels with it
JsonObject(r) ==
    << <<"id", JsonString(r.id)>>,
       <<"timestamp", JsonString(r.timestamp)>>,
       <<"trigger_time", JsonString(r.trigger_time)>>,
       <<"message", JsonString(r.message)>>,
       <<"full_command", JsonString(r.full_command)>> >>

\* the value json.load gives for a key of an object
JsonValue(obj, key) ==
    LET i == CHOOSE i \in 1..Len(obj) : obj[i][1] = key
    IN  obj[i][2].quoted

\* mutant: the dict comes back without its full_command
JsonDictWithoutCommand(obj) ==
    [id |-> JsonValue(obj, "id"),
     timestamp |-> JsonValue(obj, "timestamp"),
     trigger_time |-> JsonValue(obj, "trigger_time"),
     message |-> JsonValue(obj, "message"),
     full_command |-> <<>>]

\* one object as json.load returns it
JsonDict(obj) ==
    [id |-> JsonValue(obj, "id"),
     timestamp |-> JsonValue(obj, "timestamp"),
     trigger_time |-> JsonValue(obj, "trigger_time"),
     message |-> JsonValue(obj, "message"),
     full_command |-> JsonValue(obj, "full_command")]

\* save_reminders: the file is overwritten with json.dump(reminders)
SaveReminders(list) ==
    [kind |-> "json", items |-> [j \in 1..Len(list) |-> JsonObject(list[j])]]

\* mutant: json.JSONDecodeError is not caught either
LoadRaisesOnMalformed(file) == file.kind \in {"unreadable", "malformed"}

\* load_reminders raises: only FileNotFoundError and json.JSONDecodeError
\* are caught
LoadRaises(file) == file.kind = "unreadable"

\* what load_reminders returns when it returns
LoadReminders(file) ==
    IF file.kind = "missing" THEN <<>>
    ELSE IF file.kind = "malformed" THEN <<>>
    ELSE [j \in 1..Len(file.items) |-> JsonDict(file.items[j])]

FileContents ==
    {MissingFile, MalformedFile, UnreadableFile} \cup
    {SaveReminders([j \in 1..Len(ts) |-> ReminderData(j, ts[j], 0)]) :
        ts \in TickStores}

\* invocation 1 is about to call process_reminder, daemon 1 is running
StoreInit ==
    /\ clock = 0
    /\ store \in FileContents
    /\ lock = LockPid(1)
    /\ cli = [c \in CliIds |-> IF c = 1 THEN [CliInit EXCEPT !.pc = "process"]
                               ELSE [CliInit EXCEPT !.pc = "done"]]
    /\ dmn = [p \in Pids |-> IF p = 1 THEN [DmnInit EXCEPT !.pc = "load"]
                             ELSE DmnInit]
    /\ sink = <<>>
    /\ failed = {}
    /\ overlap = FALSE
    /\ parser = ParserIdle

\* process_reminder up to reminders.append(reminder_data); an exception of
\* load_reminders is not caught and ends the invocation
FileCliLoad(c) ==
    /\ cli[c].pc = "process"
    /\ \E t \in Inputs :
         IF ~Accepts(t, clock)
         THEN cli' = [cli EXCEPT ![c].pc = "done"]
         ELSE IF LoadRaises(store)
         THEN cli' = [cli EXCEPT ![c].pc = "done",
                                 ![c].rec = ReminderData(c, t, clock)]
         ELSE cli' = [cli EXCEPT ![c].pc = "save",
                                 ![c].rec = ReminderData(c, t, clock),
                                 ![c].reminders = LoadReminders(store)]
    /\ UNCHANGED <<clock, store, lock, dmn, sink, failed, overlap, parser>>

\* reminders.append(reminder_data); save_reminders(reminders)
FileCliSave(c) ==
    /\ cli[c].pc = "save"
    /\ store' = SaveReminders(Append(cli[c].reminders, cli[c].rec))
    /\ cli' = [cli EXCEPT ![c].pc = "done", ![c].saved = TRUE,
                          ![c].reminders = Append(cli[c].reminders, cli[c].rec)]
    /\ UNCHANGED <<clock, lock, dmn, sink, failed, overlap, parser>>

\* reminders = load_reminders(); now = datetime.now(); an exception of
\* load_reminders leaves the while loop
FileDaemonLoad(p) ==
    /\ dmn[p].pc = "load"
    /\ dmn' = IF LoadRaises(store)
              THEN [dmn EXCEPT ![p] = Rest(dmn[p], "dead", "error")]
              ELSE [dmn EXCEPT ![p].pc = "scan",
                               ![p].reminders = LoadReminders(store),
                               ![p].now = clock]
    /\ UNCHANGED <<clock, store, lock, cli, sink, failed, overlap, parser>>

\* the deletions and save_reminders(reminders)
FileDaemonSave(p) ==
    /\ dmn[p].pc = "scan"
    /\ DueFrom(dmn[p]) = {}
    /\ store' = SaveReminders(Without(dmn[p].reminders, dmn[p].rm, 1))
    /\ dmn' = [dmn EXCEPT ![p] = Rest(dmn[p], "load", "none")]
    /\ UNCHANGED <<clock, lock, cli, sink, failed, overlap, parser>>

StoreNext ==
    \/ \E c \in CliIds : FileCliLoad(c)
    \/ \E c \in CliIds : FileCliSave(c)
    \/ \E p \in Pids : FileDaemonLoad(p)
    \/ \E p \in Pids : DaemonNotify(p)
    \/ \E p \in Pids : FileDaemonSave(p)
    \/ AdvanceClock

StoreSpec == StoreInit /\ [][StoreNext]_vars

\* the four fields of a ReminderRecord agree
SameFields(a, b) ==
    /\ a.timestamp = b.timestamp
    /\ a.trigger_time = b.trigger_time
    /\ a.message = b.message
    /\ a.full_command = b.full_command

SameRecords(x, y) ==
    /\ Len(x) = Len(y)
    /\ \A j \in 1..Len(x) : SameFields(x[j], y[j])

\* the file is absent or is text that json.load rejects
NothingToLoad == store.kind \in {"missing", "malformed"}

=============================================================================
